---- MODULE Spec2Model ----
(***************************************************************************)
(* Oracle-API-Bridge: the request handler of asd_api (BaseView.post and    *)
(* its two subclasses QueryView and DataTableView) over a shared oracledb  *)
(* session pool.                                                           *)
(*                                                                         *)
(* Python values are modelled as follows.                                  *)
(*   text      a sequence of one-character strings                         *)
(*   dict      a sequence of <<key, value>> pairs with distinct keys, in   *)
(*             insertion order                                             *)
(*   list      a sequence                                                  *)
(*   value     a record tagged by its field t                              *)
(***************************************************************************)
EXTENDS Integers, Sequences, FiniteSets, TLC

(***************************************************************************)
(* Bounds of the model.                                                    *)
(***************************************************************************)
\* number of worker threads handling requests concurrently
NReq == 2
\* the pool's max (500 in the source), scaled down
PoolMax == 1

Workers == 1..NReq
Sessions == 1..PoolMax

(***************************************************************************)
(* Text.                                                                   *)
(***************************************************************************)
Digits == {"0", "1", "2", "3", "4", "5", "6", "7", "8", "9"}

DigitVal(c) ==
    CASE c = "0" -> 0 [] c = "1" -> 1 [] c = "2" -> 2 [] c = "3" -> 3
      [] c = "4" -> 4 [] c = "5" -> 5 [] c = "6" -> 6 [] c = "7" -> 7
      [] c = "8" -> 8 [] c = "9" -> 9 [] OTHER -> 0

\* str.count(c)
Count(s, c) == Cardinality({i \in 1..Len(s) : s[i] = c})

\* str.startswith(p)
StartsWith(s, p) == Len(s) >= Len(p) /\ SubSeq(s, 1, Len(p)) = p

\* s[n:]
SliceFrom(s, n) == SubSeq(s, n + 1, Len(s))

Whitespace == {" "}

(***************************************************************************)
(* datetime.strptime.  A format is a sequence of directives ("Y", "m",     *)
(* "d", "H", "M", "S"), literal characters and " " (one or more white      *)
(* space characters).  Each directive accepts what the regular expression  *)
(* of Python's _strptime accepts for it; the whole text must be consumed.  *)
(***************************************************************************)
Directives == {"Y", "m", "d", "H", "M", "S"}

\* the widths a directive may take
Widths(dir) == IF dir = "Y" THEN {4} ELSE {1, 2}

\* whether the characters f are accepted for directive dir
Accepts(dir, f) ==
    LET a == f[1]
        b == f[2]
        two == Len(f) = 2
        one == Len(f) = 1
    IN  CASE dir = "Y" -> Len(f) = 4 /\ \A i \in 1..4 : f[i] \in Digits
          [] dir = "m" -> \/ two /\ a = "1" /\ b \in {"0", "1", "2"}
                          \/ two /\ a = "0" /\ b \in Digits \ {"0"}
                          \/ one /\ a \in Digits \ {"0"}
          [] dir = "d" -> \/ two /\ a = "3" /\ b \in {"0", "1"}
                          \/ two /\ a \in {"1", "2"} /\ b \in Digits
                          \/ two /\ a = "0" /\ b \in Digits \ {"0"}
                          \/ one /\ a \in Digits \ {"0"}
                          \/ two /\ a = " " /\ b \in Digits \ {"0"}
          [] dir = "H" -> \/ two /\ a = "2" /\ b \in {"0", "1", "2", "3"}
                          \/ two /\ a \in {"0", "1"} /\ b \in Digits
                          \/ one /\ a \in Digits
          [] dir = "M" -> \/ two /\ a \in {"0", "1", "2", "3", "4", "5"} /\ b \in Digits
                          \/ one /\ a \in Digits
          [] dir = "S" -> \/ two /\ a = "6" /\ b \in {"0", "1"}
                          \/ two /\ a \in {"0", "1", "2", "3", "4", "5"} /\ b \in Digits
                          \/ one /\ a \in Digits
          [] OTHER -> FALSE

RECURSIVE IntOf(_)
\* int() of the characters f (a leading space counts as nothing)
IntOf(f) ==
    IF f = <<>> THEN 0
    ELSE IntOf(SubSeq(f, 1, Len(f) - 1)) * 10 + DigitVal(f[Len(f)])

RECURSIVE Match(_, _, _)
\* the sequences of field values with which fmt matches s from position i to its end
Match(s, i, fmt) ==
    IF fmt = <<>> THEN (IF i = Len(s) + 1 THEN {<<>>} ELSE {})
    ELSE LET h == Head(fmt)
             t == Tail(fmt)
         IN  IF h \in Directives
             THEN UNION {
                    IF i + n - 1 <= Len(s) /\ Accepts(h, SubSeq(s, i, i + n - 1))
                    THEN {<<IntOf(SubSeq(s, i, i + n - 1))>> \o r : r \in Match(s, i + n, t)}
                    ELSE {} : n \in Widths(h)}
             ELSE IF h = " "
             THEN UNION {
                    IF \A j \in i..(i + n - 1) : s[j] \in Whitespace
                    THEN Match(s, i + n, t)
                    ELSE {} : n \in 1..(Len(s) - i + 1)}
             ELSE IF i <= Len(s) /\ s[i] = h THEN Match(s, i + 1, t) ELSE {}

IsLeap(y) == (y % 4 = 0 /\ y % 100 # 0) \/ y % 400 = 0

DaysInMonth(y, m) ==
    IF m = 2 THEN (IF IsLeap(y) THEN 29 ELSE 28)
    ELSE IF m \in {4, 6, 9, 11} THEN 30 ELSE 31

FormatDate == <<"Y", "-", "m", "-", "d">>
FormatDateTime == <<"Y", "-", "m", "-", "d", " ", "H", ":", "M", ":", "S">>

\* a datetime value
DateTime(Y, m, d, H, M, S) ==
    [t |-> "datetime", Y |-> Y, m |-> m, d |-> d, H |-> H, M |-> M, S |-> S]

\* the datetime of the matched fields, when there is a match and the fields are in range
FieldsToDateTime(found) ==
    LET f == CHOOSE x \in found : TRUE
        g == IF Len(f) = 3 THEN f \o <<0, 0, 0>> ELSE f
        valid == /\ found # {}
                 /\ g[1] >= 1
                 /\ g[3] <= DaysInMonth(g[1], g[2])
                 /\ g[6] <= 59
    IN  IF valid
        THEN [ok |-> TRUE, value |-> DateTime(g[1], g[2], g[3], g[4], g[5], g[6])]
        ELSE [ok |-> FALSE, value |-> DateTime(0, 0, 0, 0, 0, 0)]

\* datetime.strptime(s, fmt): [ok |-> TRUE, value |-> datetime] or [ok |-> FALSE] (ValueError)
strptime(s, fmt) == FieldsToDateTime(Match(s, 1, fmt))

(***************************************************************************)
(* Python values and exceptions.                                           *)
(***************************************************************************)
PyStr(s) == [t |-> "str", s |-> s]
PyNum(n) == [t |-> "num", n |-> n]
\* a dict parameter value {"dir": dir, "type": type}
PyDesc(dir, type) == [t |-> "dict", dir |-> dir, type |-> type]
\* the driver variable cursor.var(type) bound for the parameter key
Var(type, key) == [t |-> "var", type |-> type, key |-> key]

NoExc == [cls |-> "none", at |-> "", msg |-> <<>>]
Exc(cls, at, msg) == [cls |-> cls, at |-> at, msg |-> msg]
\* an oracledb.Error raised by the driver call `at`, with the driver's detail
DriverError(at) == Exc("oracledb.Error", at, <<"ORA", at>>)

(***************************************************************************)
(* dict operations.                                                        *)
(***************************************************************************)
Keys(d) == [i \in DOMAIN d |-> d[i][1]]
Values(d) == [i \in DOMAIN d |-> d[i][2]]
HasKey(d, k) == \E i \in DOMAIN d : d[i][1] = k
Get(d, k) == d[CHOOSE i \in DOMAIN d : d[i][1] = k][2]

\* d[k] = v: replaces the value of an existing key in place, appends a new key
DictSet(d, k, v) ==
    IF HasKey(d, k)
    THEN [i \in DOMAIN d |-> IF d[i][1] = k THEN <<k, v>> ELSE d[i]]
    ELSE Append(d, <<k, v>>)

RECURSIVE DictOf(_)
\* dict(pairs) and {k: v for ...}: the pairs inserted one after another
DictOf(pairs) ==
    IF pairs = <<>> THEN <<>>
    ELSE LET n == Len(pairs)
         IN  DictSet(DictOf(SubSeq(pairs, 1, n - 1)), pairs[n][1], pairs[n][2])

\* zip(a, b)
Zip(a, b) ==
    [i \in 1..(IF Len(a) < Len(b) THEN Len(a) ELSE Len(b)) |-> <<a[i], b[i]>>]

(***************************************************************************)
(* The driver, as far as the handler depends on it.                        *)
(***************************************************************************)
\* attributes of module oracledb that name a database type, and the type named
DriverAttrs ==
    <<<<"DB_TYPE_CURSOR", "DB_TYPE_CURSOR">>, <<"CURSOR", "DB_TYPE_CURSOR">>,
      <<"DB_TYPE_NUMBER", "DB_TYPE_NUMBER">>, <<"NUMBER", "DB_TYPE_NUMBER">>,
      <<"DB_TYPE_VARCHAR", "DB_TYPE_VARCHAR">>>>

(***************************************************************************)
(* BaseView.prepare_proc_params.                                           *)
(***************************************************************************)
\* try: value = strptime(...) except ValueError: raise ValidationError(... key ...)
ParsedOrRaise(key, value, what, p) ==
    IF p.ok THEN [exc |-> NoExc, value |-> p.value]
    ELSE [exc |-> Exc("ValidationError", "bind", <<what, key>>), value |-> value]

\* ConvertValue without the len(value) == 10 test
ConvertValueAnyLength(key, value) ==
    IF value.t = "str" /\ Count(value.s, "-") = 2
    THEN ParsedOrRaise(key, value, "date", strptime(value.s, FormatDate))
    ELSE IF value.t = "str" /\ Count(value.s, "-") = 2 /\ Count(value.s, ":") = 2
            /\ Len(value.s) = 19
    THEN ParsedOrRaise(key, value, "datetime", strptime(value.s, FormatDateTime))
    ELSE [exc |-> NoExc, value |-> value]

\* the conversion of one IN value: [exc, value]
ConvertValue(key, value) ==
    IF value.t = "str" /\ Count(value.s, "-") = 2 /\ Len(value.s) = 10
    THEN ParsedOrRaise(key, value, "date", strptime(value.s, FormatDate))
    ELSE IF value.t = "str" /\ Count(value.s, "-") = 2 /\ Count(value.s, ":") = 2
            /\ Len(value.s) = 19
    THEN ParsedOrRaise(key, value, "datetime", strptime(value.s, FormatDateTime))
    ELSE [exc |-> NoExc, value |-> value]

Bound(exc, proc_params, proc_out_params) ==
    [exc |-> exc, proc_params |-> proc_params, proc_out_params |-> proc_out_params]

\* one pass of the loop over params.items(): the lists after the item <<key, value>>,
\* c being the conversion of value when it is no OUT descriptor
BindItem(key, value, c, proc_params, proc_out_params) ==
    IF value.t = "dict" /\ value.dir = "OUT"
    THEN IF ~HasKey(DriverAttrs, value.type)
         THEN Bound(Exc("AttributeError", "bind", <<"oracledb", value.type>>),
                    proc_params, proc_out_params)
         ELSE Bound(NoExc, Append(proc_params, Var(Get(DriverAttrs, value.type), key)),
                    DictSet(proc_out_params, key, Var(Get(DriverAttrs, value.type), key)))
    ELSE IF c.exc # NoExc
    THEN Bound(c.exc, proc_params, proc_out_params)
    ELSE Bound(NoExc, Append(proc_params, c.value), proc_out_params)

RECURSIVE BindFrom(_, _, _)
\* the loop over params.items() from item i on, b being the lists so far
BindFrom(items, i, b) ==
    IF i > Len(items) \/ b.exc # NoExc THEN b
    ELSE BindFrom(items, i + 1,
                  BindItem(items[i][1], items[i][2], ConvertValue(items[i][1], items[i][2]),
                           b.proc_params, b.proc_out_params))

\* params is [t |-> "dict", items |-> dict] or [t |-> "list", items |-> list]
prepare_proc_params(params) ==
    IF params.t # "dict"
    THEN Bound(Exc("AttributeError", "bind", <<"items">>), <<>>, <<>>)
    ELSE BindFrom(params.items, 1, Bound(NoExc, <<>>, <<>>))

(***************************************************************************)
(* Result sets as the driver reports them: description is a sequence of    *)
(* <<column name, native type name>>, rows a sequence of tuples.           *)
(***************************************************************************)
\* a Python str that the handler never looks into
PyAtom(a) == [t |-> "str", a |-> a]
PyList(items) == [t |-> "list", items |-> items]

NoResult == [t |-> "none"]

\* one entry of column_type_mapping
Entry(tag, name) == <<name, PyList(<<tag, name>>)>>

column_type_mapping ==
    << Entry("string", "DB_TYPE_VARCHAR"), Entry("string", "DB_TYPE_NVARCHAR"),
       Entry("string", "DB_TYPE_NCHAR"), Entry("string", "DB_TYPE_CHAR"),
       Entry("number", "DB_TYPE_NUMBER"), Entry("number", "DB_TYPE_BINARY_FLOAT"),
       Entry("number", "DB_TYPE_BINARY_DOUBLE"), Entry("date", "DB_TYPE_DATE"),
       Entry("date", "DB_TYPE_TIMESTAMP"),
       Entry("date", "DB_TYPE_TIMESTAMP_WITH_TIMEZONE"),
       Entry("date", "DB_TYPE_TIMESTAMP_LTZ"), Entry("date", "DB_TYPE_TIMESTAMP_TZ"),
       Entry("date", "DB_TYPE_TIMESTAMP_UTC"), Entry("string", "DB_TYPE_RAW"),
       Entry("string", "DB_TYPE_LONG"), Entry("string", "DB_TYPE_BLOB"),
       Entry("string", "DB_TYPE_CLOB"), Entry("string", "DB_TYPE_NCLOB"),
       Entry("boolean", "DB_TYPE_BOOLEAN"), Entry("number", "DB_TYPE_INT64"),
       Entry("number", "DB_TYPE_INT32"), Entry("number", "DB_TYPE_INT16"),
       Entry("number", "DB_TYPE_INT8"), Entry("number", "DB_TYPE_FLOAT"),
       Entry("number", "DB_TYPE_DOUBLE"), Entry("number", "DB_TYPE_DECIMAL"),
       Entry("number", "DB_TYPE_BIGINT"), Entry("number", "DB_TYPE_SMALLINT"),
       Entry("number", "DB_TYPE_TINYINT"), Entry("string", "DB_TYPE_XML"),
       Entry("string", "DB_TYPE_REF_CURSOR"),
       Entry("date", "DB_TYPE_TIMESTAMP_WITH_LOCAL_TIME_ZONE"),
       Entry("date", "DB_TYPE_TIMESTAMP_WITH_UTC_TIME_ZONE"),
       Entry("date", "DB_TYPE_TIMESTAMP_WITH_TIME_ZONE") >>

\* DataTableView.get_column_type; column_type is the native type's name
get_column_type(column_type) ==
    IF HasKey(column_type_mapping, column_type)
    THEN Get(column_type_mapping, column_type)
    ELSE PyAtom("string")

\* [dict(zip(columns, row)) for row in rows]
RowList(rs) ==
    LET columns == [j \in DOMAIN rs.description |-> rs.description[j][1]]
    IN  [t |-> "rowlist",
         rows |-> [i \in DOMAIN rs.rows |-> DictOf(Zip(columns, rs.rows[i]))]]

\* {"columns": {col[0]: get_column_type(col[1]) ...}, "rows": [list(row) ...]}
Table(rs) ==
    [t |-> "table",
     columns |-> DictOf([j \in DOMAIN rs.description |->
                            <<rs.description[j][1], get_column_type(rs.description[j][2])>>]),
     rows |-> rs.rows]

\* the value out_param.getvalue() gives for a scalar OUT parameter
ScalarOut == PyAtom("42")

IsCursor(out_param) == out_param.type = "DB_TYPE_CURSOR"

\* whether reading the OUT parameters fetches from a cursor and the fetch raises
OutFetchRaises(proc_out_params, d) ==
    d.fetch = "err" /\ \E i \in DOMAIN proc_out_params : IsCursor(proc_out_params[i][2])

\* QueryView.get_proc_output
QueryView_get_proc_output(proc_out_params, d) ==
    IF OutFetchRaises(proc_out_params, d)
    THEN [exc |-> DriverError("fetch_out"), output |-> <<>>]
    ELSE [exc |-> NoExc,
          output |-> [i \in DOMAIN proc_out_params |->
                        <<proc_out_params[i][1],
                          IF IsCursor(proc_out_params[i][2]) THEN RowList(d.rs)
                          ELSE ScalarOut>>]]

\* DataTableView.get_proc_output
DataTableView_get_proc_output(proc_out_params, d) ==
    IF OutFetchRaises(proc_out_params, d)
    THEN [exc |-> DriverError("fetch_out"), output |-> <<>>]
    ELSE [exc |-> NoExc,
          output |-> [i \in DOMAIN proc_out_params |->
                        <<proc_out_params[i][1],
                          IF IsCursor(proc_out_params[i][2]) THEN Table(d.rs)
                          ELSE ScalarOut>>]]

get_proc_output(view, proc_out_params, d) ==
    IF view = "QueryView" THEN QueryView_get_proc_output(proc_out_params, d)
    ELSE DataTableView_get_proc_output(proc_out_params, d)

(***************************************************************************)
(* What a call of execute_sql did: the exception it raised (or NoExc), the *)
(* value it returned, the number of commits it issued, its steps in order  *)
(* and what it handed to the driver.                                       *)
(***************************************************************************)
Outcome(exc, result, commits, steps, handed) ==
    [exc |-> exc, result |-> result, commits |-> commits, steps |-> steps,
     handed |-> handed]

NotHanded == [given |-> FALSE, target |-> <<>>, params |-> PyList(<<>>)]
Handed(target, params) == [given |-> TRUE, target |-> target, params |-> params]

\* QueryView.execute_query committing before it fetches
QueryViewCommitsBeforeFetch(sql, params, d) ==
    LET h == Handed(sql, params)
    IN  IF d.exec = "err"
        THEN Outcome(DriverError("execute"), NoResult, 0, <<"execute">>, h)
        ELSE IF d.hasrs /\ d.fetch = "err"
        THEN Outcome(DriverError("fetch"), NoResult, 1, <<"execute", "commit", "shape">>, h)
        ELSE Outcome(NoExc, IF d.hasrs THEN RowList(d.rs) ELSE [t |-> "rowlist", rows |-> <<>>],
                     1, <<"execute", "commit", "shape">>, h)

\* QueryView.execute_query
QueryView_execute_query(sql, params, d) ==
    LET h == Handed(sql, params)
    IN  IF d.exec = "err"
        THEN Outcome(DriverError("execute"), NoResult, 0, <<"execute">>, h)
        ELSE IF d.hasrs
        THEN IF d.fetch = "err"
             THEN Outcome(DriverError("fetch"), NoResult, 0, <<"execute", "shape">>, h)
             ELSE Outcome(NoExc, RowList(d.rs), 0, <<"execute", "shape">>, h)
        ELSE Outcome(NoExc, [t |-> "rowlist", rows |-> <<>>], 1,
                     <<"execute", "commit", "shape">>, h)

\* DataTableView.execute_query
DataTableView_execute_query(sql, params, d) ==
    LET h == Handed(sql, params)
    IN  IF d.exec = "err"
        THEN Outcome(DriverError("execute"), NoResult, 0, <<"execute">>, h)
        ELSE IF d.hasrs
        THEN IF d.fetch = "err"
             THEN Outcome(DriverError("fetch"), NoResult, 0, <<"execute", "shape">>, h)
             ELSE Outcome(NoExc, Table(d.rs), 0, <<"execute", "shape">>, h)
        ELSE Outcome(NoExc, [t |-> "table", columns |-> <<>>, rows |-> <<>>], 1,
                     <<"execute", "commit", "shape">>, h)

execute_query(view, sql, params, d) ==
    IF view = "QueryView" THEN QueryView_execute_query(sql, params, d)
    ELSE DataTableView_execute_query(sql, params, d)

\* the dict call_procedure returns
ProcResult(has_output, output) ==
    [t |-> "proc", message |-> "procedure call succeeded", has_output |-> has_output,
     output |-> output]

\* call_procedure from callproc on: b is what prepare_proc_params returned, h what
\* callproc is given, o what get_proc_output does when it is called
CallBound(b, h, o, d) ==
    IF d.exec = "err"
    THEN Outcome(DriverError("callproc"), NoResult, 0, <<"bind", "execute">>, h)
    ELSE IF b.proc_out_params = <<>>
    THEN Outcome(NoExc, ProcResult(FALSE, <<>>), 1, <<"bind", "execute", "commit">>, h)
    ELSE IF o.exc # NoExc
    THEN Outcome(o.exc, NoResult, 1, <<"bind", "execute", "commit", "shape">>, h)
    ELSE Outcome(NoExc, ProcResult(TRUE, o.output), 1,
                 <<"bind", "execute", "commit", "shape">>, h)

\* call_procedure after prepare_proc_params returned or raised
CallPrepared(view, proc_name, b, d) ==
    IF b.exc # NoExc
    THEN Outcome(b.exc, NoResult, 0, <<"bind">>, NotHanded)
    ELSE CallBound(b, Handed(proc_name, PyList(b.proc_params)),
                   get_proc_output(view, b.proc_out_params, d), d)

\* call_procedure giving callproc the request's values in place of proc_params
CallProcedureRawValues(view, proc_name, params, d) ==
    [CallPrepared(view, proc_name, prepare_proc_params(params), d)
     EXCEPT !.handed = IF @.given THEN Handed(proc_name, PyList(Values(params.items)))
                       ELSE @]

\* BaseView.call_procedure
call_procedure(view, proc_name, params, d) ==
    CallPrepared(view, proc_name, prepare_proc_params(params), d)

CALL == <<"C", "A", "L", "L">>

\* execute_sql taking the procedure name as sql[4:]
ExecuteSqlSliceFour(view, sql, params, d) ==
    [(IF StartsWith(sql, CALL)
      THEN call_procedure(view, SliceFrom(sql, 4), params, d)
      ELSE execute_query(view, sql, params, d))
     EXCEPT !.steps = <<"classify">> \o @]

\* BaseView.execute_sql
execute_sql(view, sql, params, d) ==
    [(IF StartsWith(sql, CALL)
      THEN call_procedure(view, SliceFrom(sql, 5), params, d)
      ELSE execute_query(view, sql, params, d))
     EXCEPT !.steps = <<"classify">> \o @]

(***************************************************************************)
(* BaseView.post, from the cursor on (lines 75-84).                        *)
(***************************************************************************)
\* connection.commit() of line 77, reached when execute_sql returned
CommitAfter(o) ==
    IF o.exc = NoExc
    THEN [o EXCEPT !.commits = @ + 1, !.steps = Append(@, "commit")]
    ELSE o

\* the body of the two with blocks: execute_sql, then connection.commit()
post_body(view, sql, params, d) == CommitAfter(execute_sql(view, sql, params, d))

NoResp == [kind |-> "none", status |-> 0, msg |-> <<>>, data |-> NoResult]
DataResp(result) == [kind |-> "data", status |-> 200, msg |-> <<>>, data |-> result]
ErrorResp(msg) == [kind |-> "error", status |-> 400, msg |-> msg, data |-> NoResult]

\* the fixed texts of the error responses
MsgBadFormat == <<"bad data format">>
MsgNoSql == <<"no SQL statement given">>
MsgDatabase == <<"database error">>

\* post without its except oracledb.Error clause
PostResponseNoDriverClause(o) ==
    IF o.exc = NoExc THEN DataResp(o.result) ELSE ErrorResp(o.exc.msg)

\* the Response built at the end of post from what the try block did
post_response(o) ==
    IF o.exc = NoExc THEN DataResp(o.result)
    ELSE IF o.exc.cls = "oracledb.Error" THEN ErrorResp(MsgDatabase)
    ELSE ErrorResp(o.exc.msg)

(***************************************************************************)
(* The pool (oracledb.SessionPool), as far as get_connection and the with  *)
(* statement use it.                                                       *)
(***************************************************************************)
\* a pool that lends a session whether or not it is lent already
PoolAcquireAny(busy) == Sessions

\* the sessions pool.acquire() may return when `busy` are leased
pool_acquire(busy) == Sessions \ busy

\* a release that is skipped when the block is left by an exception
WithExitOnSuccessOnly(busy, connection, exc) ==
    IF exc = NoExc THEN busy \ connection ELSE busy

\* leaving `with self.get_connection() as connection`: the leased sessions afterwards
with_exit(busy, connection, exc) == busy \ connection

(***************************************************************************)
(* The requests and driver behaviours the model draws from.                *)
(***************************************************************************)
MyProc == <<"m", "y", "_", "p", "r", "o", "c">>
\* 'CALL my_proc'
SqlCall == CALL \o <<" ">> \o MyProc
\* 'SELECT 1'
SqlSelect == <<"S", "E", "L", "E", "C", "T", " ", "1">>
\* 'SELECTCALL 1'
SqlSelectCall == <<"S", "E", "L", "E", "C", "T", "C", "A", "L", "L", " ", "1">>
\* ' CALL my_proc'
SqlSpaceCall == <<" ">> \o SqlCall
\* 'CALLmy_proc'
SqlCallGlued == CALL \o MyProc
\* 'call my_proc'
SqlLowerCall == <<"c", "a", "l", "l", " ">> \o MyProc

SqlTexts == {SqlCall, SqlSelect, SqlSelectCall, SqlSpaceCall, SqlCallGlued, SqlLowerCall}

\* '2024-01-15'
TxtDate == <<"2", "0", "2", "4", "-", "0", "1", "-", "1", "5">>
\* '2024-13-40'
TxtBadMonth == <<"2", "0", "2", "4", "-", "1", "3", "-", "4", "0">>
\* 'ab-cd-efgh'
TxtLetters == <<"a", "b", "-", "c", "d", "-", "e", "f", "g", "h">>
\* '2024-01- 5'
TxtSpaceDay == <<"2", "0", "2", "4", "-", "0", "1", "-", " ", "5">>
\* '2024-02-30'
TxtFeb30 == <<"2", "0", "2", "4", "-", "0", "2", "-", "3", "0">>
\* '2024-02-29'
TxtLeapDay == <<"2", "0", "2", "4", "-", "0", "2", "-", "2", "9">>
\* '2024-01-15 10:30:00'
TxtDateTime == <<"2", "0", "2", "4", "-", "0", "1", "-", "1", "5", " ", "1", "0", ":", "3", "0", ":", "0", "0">>
\* '2024-1-15  10:30:00'
TxtLooseDateTime == <<"2", "0", "2", "4", "-", "1", "-", "1", "5", " ", " ", "1", "0", ":", "3", "0", ":", "0", "0">>
\* '2024-01-15T10:30:00'
TxtIsoT == <<"2", "0", "2", "4", "-", "0", "1", "-", "1", "5", "T", "1", "0", ":", "3", "0", ":", "0", "0">>
\* 'hello'
TxtHello == <<"h", "e", "l", "l", "o">>
\* '2024/01/15'
TxtSlashes == <<"2", "0", "2", "4", "/", "0", "1", "/", "1", "5">>
\* '2024-01-15 10:30'
TxtShortTime == <<"2", "0", "2", "4", "-", "0", "1", "-", "1", "5", " ", "1", "0", ":", "3", "0">>
\* '1-2-3'
TxtShort == <<"1", "-", "2", "-", "3">>

ParamTexts == {TxtDate, TxtBadMonth, TxtLetters, TxtSpaceDay, TxtFeb30,
               TxtLeapDay, TxtDateTime, TxtLooseDateTime, TxtIsoT,
               TxtHello, TxtSlashes, TxtShortTime, TxtShort}

PyDict(items) == [t |-> "dict", items |-> items]

\* the params of a request body
ParamSets ==
    {PyDict(<<<<"p", PyStr(s)>>>>) : s \in ParamTexts} \cup
    { PyDict(<<>>),
      PyDict(<<<<"n", PyNum(5)>>, <<"o", PyDesc("OUT", "NUMBER")>>,
               <<"c", PyDesc("OUT", "DB_TYPE_CURSOR")>>>>),
      PyDict(<<<<"c", PyDesc("OUT", "CURSOR")>>>>),
      PyDict(<<<<"o", PyDesc("OUT", "NoSuchType")>>>>),
      PyDict(<<<<"d", PyDesc("IN", "NUMBER")>>>>),
      PyDict(<<<<"a", PyStr(TxtHello)>>, <<"b", PyStr(TxtDate)>>>>),
      PyDict(<<<<"a", PyStr(TxtLetters)>>, <<"b", PyStr(TxtBadMonth)>>>>),
      PyList(<<PyStr(TxtHello)>>) }

Views == {"QueryView", "DataTableView"}

\* request.data: not a dict, or a dict whose 'sql' is sql (<<>>: absent or empty)
Body(isdict, sql, params) == [isdict |-> isdict, sql |-> sql, params |-> params]
NotADict == Body(FALSE, <<>>, PyDict(<<>>))
NoSql == Body(TRUE, <<>>, PyDict(<<>>))

Request(view, body) == [view |-> view, body |-> body]

Requests ==
    {Request(v, b) : v \in Views,
                     b \in {NotADict, NoSql} \cup
                           {Body(TRUE, q, p) : q \in SqlTexts, p \in ParamSets}}

ResultSet(description, rows) == [description |-> description, rows |-> rows]

\* two columns, two rows
RsTwoByTwo ==
    ResultSet(<<<<"ID", "DB_TYPE_NUMBER">>, <<"NAME", "DB_TYPE_VARCHAR">>>>,
              <<<<"1", "a">>, <<"2", "b">>>>)
\* two columns of the same name (SELECT a.id, b.id ...)
RsSameName ==
    ResultSet(<<<<"ID", "DB_TYPE_NUMBER">>, <<"ID", "DB_TYPE_VARCHAR">>>>,
              <<<<"1", "a">>>>)
\* a native type the table does not hold, a boolean and a date column
RsOtherTypes ==
    ResultSet(<<<<"DOC", "DB_TYPE_JSON">>, <<"OK", "DB_TYPE_BOOLEAN">>,
                <<"AT", "DB_TYPE_DATE">>>>,
              <<<<"{}", "1", "d">>>>)

ResultSets == {RsTwoByTwo, RsSameName, RsOtherTypes}

\* what the driver does during one request: whether execute/callproc raises, whether
\* the statement has a result set, the result set (of the statement or of a cursor
\* OUT parameter), whether fetchall raises
DriverScripts ==
    [exec : {"ok", "err"}, hasrs : BOOLEAN, rs : ResultSets, fetch : {"ok", "err"}]

NoScript == [exec |-> "ok", hasrs |-> FALSE, rs |-> RsTwoByTwo, fetch |-> "ok"]

\* the requests and driver behaviours of the concurrent specification
PoolRequests ==
    { Request("QueryView", NotADict),
      Request("DataTableView", NoSql),
      Request("QueryView", Body(TRUE, SqlSelect, PyDict(<<>>))),
      Request("DataTableView", Body(TRUE, SqlCall, PyDict(<<<<"p", PyStr(TxtBadMonth)>>>>))),
      Request("QueryView", Body(TRUE, SqlCall, PyDict(<<<<"o", PyDesc("OUT", "NoSuchType")>>>>))),
      Request("DataTableView", Body(TRUE, SqlCall, PyList(<<PyStr(TxtHello)>>))) }

PoolScripts ==
    {d \in DriverScripts : d.rs = RsTwoByTwo /\ d.hasrs /\ (d.exec = "ok" \/ d.fetch = "ok")}

(***************************************************************************)
(* State.                                                                  *)
(***************************************************************************)
VARIABLES
    pc,      \* pc[w]: where worker w is in post
    req,     \* req[w]: the request worker w handles
    conn,    \* conn[w]: the session worker w holds ({} or one session)
    leased,  \* the sessions the pool has lent
    drv,     \* drv[w]: what the driver did during the request
    out,     \* out[w]: what the try block of post did
    steps,   \* steps[w]: the steps of the request so far, in order
    resp     \* resp[w]: the Response returned

vars == <<pc, req, conn, leased, drv, out, steps, resp>>

NoOutcome == Outcome(NoExc, NoResult, 0, <<>>, NotHanded)

Init ==
    /\ pc = [w \in Workers |-> "idle"]
    /\ req = [w \in Workers |-> Request("QueryView", NotADict)]
    /\ conn = [w \in Workers |-> {}]
    /\ leased = {}
    /\ drv = [w \in Workers |-> NoScript]
    /\ out = [w \in Workers |-> NoOutcome]
    /\ steps = [w \in Workers |-> <<>>]
    /\ resp = [w \in Workers |-> NoResp]

\* a request from `requests` arrives at worker w
Arrive(w, requests) ==
    /\ pc[w] \in {"idle", "done"}
    /\ \E q \in requests : req' = [req EXCEPT ![w] = q]
    /\ pc' = [pc EXCEPT ![w] = "post"]
    /\ drv' = [drv EXCEPT ![w] = NoScript]
    /\ out' = [out EXCEPT ![w] = NoOutcome]
    /\ steps' = [steps EXCEPT ![w] = <<>>]
    /\ resp' = [resp EXCEPT ![w] = NoResp]
    /\ UNCHANGED <<conn, leased>>

\* post, lines 64-71: the two 400 responses before the try block
Validate(w) ==
    /\ pc[w] = "post"
    /\ IF ~req[w].body.isdict
       THEN /\ resp' = [resp EXCEPT ![w] = ErrorResp(MsgBadFormat)]
            /\ steps' = [steps EXCEPT ![w] = Append(@, "respond")]
            /\ pc' = [pc EXCEPT ![w] = "done"]
       ELSE IF req[w].body.sql = <<>>
       THEN /\ resp' = [resp EXCEPT ![w] = ErrorResp(MsgNoSql)]
            /\ steps' = [steps EXCEPT ![w] = Append(@, "respond")]
            /\ pc' = [pc EXCEPT ![w] = "done"]
       ELSE /\ pc' = [pc EXCEPT ![w] = "acquire"]
            /\ UNCHANGED <<resp, steps>>
    /\ UNCHANGED <<req, conn, leased, drv, out>>

\* get_connection: pool.acquire() returns a session
Acquire(w) ==
    /\ pc[w] = "acquire"
    /\ \E s \in pool_acquire(leased) :
         /\ conn' = [conn EXCEPT ![w] = {s}]
         /\ leased' = leased \cup {s}
    /\ steps' = [steps EXCEPT ![w] = Append(@, "lease")]
    /\ pc' = [pc EXCEPT ![w] = "use"]
    /\ UNCHANGED <<req, drv, out, resp>>

\* get_connection: pool.acquire() raises because no session became free in time
AcquireTimeout(w) ==
    /\ pc[w] = "acquire"
    /\ pool_acquire(leased) = {}
    /\ out' = [out EXCEPT ![w] = [NoOutcome EXCEPT !.exc = DriverError("acquire")]]
    /\ pc' = [pc EXCEPT ![w] = "respond"]
    /\ UNCHANGED <<req, conn, leased, drv, steps, resp>>

\* the body of the with blocks, with the driver behaving as one of `scripts`
ExecuteSql(w, scripts) ==
    /\ pc[w] = "use"
    /\ \E d \in scripts :
         /\ drv' = [drv EXCEPT ![w] = d]
         /\ out' = [out EXCEPT ![w] =
                      post_body(req[w].view, req[w].body.sql, req[w].body.params, d)]
    /\ steps' = [steps EXCEPT ![w] = @ \o out'[w].steps]
    /\ pc' = [pc EXCEPT ![w] = "exit"]
    /\ UNCHANGED <<req, conn, leased, resp>>

\* leaving the with block of the connection, normally or by an exception
Release(w) ==
    /\ pc[w] = "exit"
    /\ leased' = with_exit(leased, conn[w], out[w].exc)
    \* the worker is rid of the session when the pool has it back
    /\ conn' = [conn EXCEPT ![w] = conn[w] \cap leased']
    /\ steps' = [steps EXCEPT ![w] = Append(@, "release")]
    /\ pc' = [pc EXCEPT ![w] = "respond"]
    /\ UNCHANGED <<req, drv, out, resp>>

\* post, lines 78-84: the Response
Respond(w) ==
    /\ pc[w] = "respond"
    /\ resp' = [resp EXCEPT ![w] = post_response(out[w])]
    /\ steps' = [steps EXCEPT ![w] = Append(@, "respond")]
    /\ pc' = [pc EXCEPT ![w] = "done"]
    /\ UNCHANGED <<req, conn, leased, drv, out>>

\* one worker, every request and driver behaviour
Next ==
    \/ Arrive(1, Requests)
    \/ Validate(1)
    \/ Acquire(1)
    \/ ExecuteSql(1, DriverScripts)
    \/ Release(1)
    \/ Respond(1)

Spec == Init /\ [][Next]_vars

\* the workers together, on the pool
NextPool ==
    \E w \in Workers :
        \/ Arrive(w, PoolRequests)
        \/ Validate(w)
        \/ Acquire(w)
        \/ AcquireTimeout(w)
        \/ ExecuteSql(w, PoolScripts)
        \/ Release(w)
        \/ Respond(w)

SpecPool == Init /\ [][NextPool]_vars

(***************************************************************************)
(* Properties.                                                             *)
(***************************************************************************)
Finished(w) == pc[w] = "done"
Seen(w, step) == \E i \in DOMAIN steps[w] : steps[w][i] = step
Times(w, step) == Cardinality({i \in DOMAIN steps[w] : steps[w][i] = step})
ReachedDriver(w) == out[w].handed.given
SqlOf(w) == req[w].body.sql
ParamsOf(w) == req[w].body.params
Holders == {w \in Workers : conn[w] # {}}

\* C1: a request that acquired a session has returned it to the pool on every exit
\* path of post before its response exists, and once every request is completed no
\* session is leased.
C1_ReleasedOnEveryExit ==
    /\ \A w \in Workers :
         /\ pc[w] \in {"respond", "done"} => conn[w] = {}
         /\ pc[w] \in {"respond", "done"} /\ Seen(w, "lease") => Seen(w, "release")
         /\ resp[w].kind # "none" => conn[w] = {}
    /\ leased = UNION {conn[w] : w \in Workers}
    /\ (\A w \in Workers : pc[w] \in {"idle", "done"}) => leased = {}

\* a request whose fetch of a cursor OUT parameter raised has answered, its session returned
C1_Witness ==
    \E w \in Workers :
        /\ Finished(w) /\ out[w].exc.at = "fetch_out"
        /\ Seen(w, "lease") /\ resp[w].kind = "error"
        /\ conn[w] = {} /\ leased = {}

\* C2 as stated: a request answered with success has issued a commit; a request that
\* ends by a binder error or by a driver error of execute, callproc or a fetch (of a
\* result set or of a cursor OUT parameter) has issued no commit.
C2_NoCommitOnAnyError ==
    \A w \in Workers :
        Finished(w) /\ Seen(w, "lease") =>
            /\ resp[w].kind = "data" => out[w].commits >= 1
            /\ out[w].exc.at \in {"bind", "execute", "callproc", "fetch", "fetch_out"}
                 => out[w].commits = 0

\* C2 amended: a request answered with success has issued a commit; a request that
\* ends by a binder error or by a driver error of execute, callproc or the fetch of a
\* direct query's result set has issued no commit; a request that ends by the fetch of
\* a cursor OUT parameter has issued the one commit of call_procedure before it.
C2_NoCommitBeforeOutput ==
    \A w \in Workers :
        Finished(w) /\ Seen(w, "lease") =>
            /\ resp[w].kind = "data" => out[w].commits >= 1
            /\ out[w].exc.at \in {"bind", "execute", "callproc", "fetch"}
                 => out[w].commits = 0
            /\ out[w].exc.at = "fetch_out" => out[w].commits = 1

\* a direct query whose fetchall raised has answered with an error and no commit
C2_Witness ==
    \E w \in Workers :
        /\ Finished(w) /\ out[w].exc.at = "fetch"
        /\ resp[w].kind = "error" /\ out[w].commits = 0

RECURSIVE LStrip(_)
LStrip(s) == IF s # <<>> /\ Head(s) \in Whitespace THEN LStrip(Tail(s)) ELSE s
RECURSIVE RStrip(_)
RStrip(s) ==
    IF s # <<>> /\ s[Len(s)] \in Whitespace THEN RStrip(SubSeq(s, 1, Len(s) - 1)) ELSE s
\* the trimmed text
Trim(s) == RStrip(LStrip(s))

\* the trimmed text starts with the token CALL: the four characters and a delimiter
StartsWithCallToken(s) ==
    /\ Len(Trim(s)) >= 5
    /\ SubSeq(Trim(s), 1, 4) = <<"C", "A", "L", "L">>
    /\ Trim(s)[5] \in Whitespace

\* the text starts with the four characters CALL
HasCallPrefix(s) ==
    Len(s) >= 4 /\ s[1] = "C" /\ s[2] = "A" /\ s[3] = "L" /\ s[4] = "L"

\* the text without its first five characters
DropFive(s) == [i \in 1..(IF Len(s) > 5 THEN Len(s) - 5 ELSE 0) |-> s[i + 5]]

\* C4 as stated: the procedure path is taken exactly when the trimmed SQL text starts
\* with the token CALL, the procedure name then being the text after CALL and one
\* delimiter; any other text is executed in full as a direct statement.
C4_DispatchOnTrimmedToken ==
    \A w \in Workers :
        Seen(w, "classify") =>
            /\ Seen(w, "bind") <=> StartsWithCallToken(SqlOf(w))
            /\ ReachedDriver(w) =>
                 out[w].handed.target =
                     IF StartsWithCallToken(SqlOf(w)) THEN DropFive(Trim(SqlOf(w)))
                     ELSE SqlOf(w)

\* C4 amended: the procedure path is taken exactly when the SQL text as given (not
\* trimmed) starts with the four characters CALL, whatever follows them, the procedure
\* name then being the text without its first five characters; any other text is
\* executed in full as a direct statement.
C4_DispatchOnPrefix ==
    \A w \in Workers :
        Seen(w, "classify") =>
            /\ Seen(w, "bind") <=> HasCallPrefix(SqlOf(w))
            /\ ReachedDriver(w) =>
                 out[w].handed.target =
                     IF HasCallPrefix(SqlOf(w)) THEN DropFive(SqlOf(w)) ELSE SqlOf(w)

\* 'CALL my_proc' has called the procedure my_proc
C4_Witness ==
    \E w \in Workers :
        /\ Finished(w) /\ SqlOf(w) = SqlCall /\ ReachedDriver(w)
        /\ out[w].handed.target = MyProc /\ Seen(w, "bind")

SemanticTypes == {"string", "number", "date", "boolean"}

\* the {columns, rows} tables in the data of worker w's response
TablesOf(w) ==
    IF resp[w].kind # "data" THEN {}
    ELSE IF resp[w].data.t = "table" THEN {resp[w].data}
    ELSE IF resp[w].data.t = "proc"
    THEN {resp[w].data.output[i][2] : i \in {j \in DOMAIN resp[w].data.output :
                                               resp[w].data.output[j][2].t = "table"}}
    ELSE {}

\* C5: every value of a table's columns mapping is one of the four semantic type tags,
\* a single tag, for native types the table holds and for those it does not.
C5_ColumnTypeIsTag ==
    \A w \in Workers :
        \A tb \in TablesOf(w) :
            \A i \in DOMAIN tb.columns :
                tb.columns[i][2] \in {PyAtom(tag) : tag \in SemanticTypes}

IsDatePattern(s) ==
    /\ Len(s) = 10
    /\ \A i \in {1, 2, 3, 4, 6, 7, 9, 10} : s[i] \in Digits
    /\ s[5] = "-" /\ s[8] = "-"

IsDateTimePattern(s) ==
    /\ Len(s) = 19
    /\ \A i \in {1, 2, 3, 4, 6, 7, 9, 10, 12, 13, 15, 16, 18, 19} : s[i] \in Digits
    /\ s[5] = "-" /\ s[8] = "-" /\ s[11] = " " /\ s[14] = ":" /\ s[17] = ":"

\* the binder raised ValidationError naming the parameter key
RaisedFor(w, key) ==
    out[w].exc.cls = "ValidationError" /\ out[w].exc.msg[2] = key

\* the texts among the parameters of a request on the procedure path
TextItems(w) ==
    IF Seen(w, "bind") /\ ParamsOf(w).t = "dict"
    THEN {i \in DOMAIN ParamsOf(w).items : ParamsOf(w).items[i][2].t = "str"}
    ELSE {}

\* C6 as stated: a text that matches neither digit pattern is passed through unchanged
\* and raises no error, whatever it resembles; a text that is passed on converted
\* matches one of the two digit patterns.
C6_OnlyDigitPatternsConverted ==
    \A w \in Workers :
        \A i \in TextItems(w) :
            LET key == ParamsOf(w).items[i][1]
                value == ParamsOf(w).items[i][2]
            IN  ~(IsDatePattern(value.s) \/ IsDateTimePattern(value.s)) =>
                    /\ ~RaisedFor(w, key)
                    /\ ReachedDriver(w) => out[w].handed.params.items[i] = value

\* the parser a text is handed to, by its length and its hyphens and colons alone
ShapeOf(s) ==
    IF Len(s) = 10 /\ Count(s, "-") = 2 THEN "date"
    ELSE IF Len(s) = 19 /\ Count(s, "-") = 2 /\ Count(s, ":") = 2 THEN "datetime"
    ELSE "other"

\* whether the parser of its shape accepts the text
Parses(s) ==
    IF ShapeOf(s) = "date" THEN strptime(s, FormatDate).ok
    ELSE strptime(s, FormatDateTime).ok

\* the item of a parameter mapping makes the binder raise
ItemRaises(item) ==
    \/ item[2].t = "str" /\ ShapeOf(item[2].s) # "other" /\ ~Parses(item[2].s)
    \/ item[2].t = "dict" /\ item[2].dir = "OUT" /\ ~HasKey(DriverAttrs, item[2].type)

\* C6 amended: a text of 10 characters with exactly two hyphens is handed to the date
\* parser, a text of 19 characters with exactly two hyphens and two colons to the
\* date-time parser; it is converted when the parser accepts it (every valid date of
\* the digit pattern, to the date of its digits) and raises ValidationError naming the
\* parameter when the parser rejects it; every other text is passed through unchanged
\* and raises no error.
C6_ConvertedByShape ==
    \A w \in Workers :
        \A i \in TextItems(w) :
            LET items == ParamsOf(w).items
                key == items[i][1]
                value == items[i][2]
                s == value.s
                passed == out[w].handed.params.items[i]
            IN  /\ ShapeOf(s) = "other" =>
                     /\ ~RaisedFor(w, key)
                     /\ ReachedDriver(w) => passed = value
                /\ ShapeOf(s) # "other" /\ Parses(s) =>
                     /\ ~RaisedFor(w, key)
                     /\ ReachedDriver(w) => passed.t = "datetime"
                /\ ShapeOf(s) # "other" /\ ~Parses(s) =>
                     /\ ~ReachedDriver(w) /\ out[w].exc.at = "bind"
                     /\ (\A j \in 1..(i - 1) : ~ItemRaises(items[j])) => RaisedFor(w, key)
                /\ IsDatePattern(s) /\ ReachedDriver(w) =>
                     passed = DateTime(IntOf(SubSeq(s, 1, 4)), IntOf(SubSeq(s, 6, 7)),
                                       IntOf(SubSeq(s, 9, 10)), 0, 0, 0)
                /\ IsDateTimePattern(s) /\ ReachedDriver(w) =>
                     passed = DateTime(IntOf(SubSeq(s, 1, 4)), IntOf(SubSeq(s, 6, 7)),
                                       IntOf(SubSeq(s, 9, 10)), IntOf(SubSeq(s, 12, 13)),
                                       IntOf(SubSeq(s, 15, 16)), IntOf(SubSeq(s, 18, 19)))

\* 'ab-cd-efgh' has raised ValidationError naming its parameter
C6_Witness ==
    \E w \in Workers :
        /\ Finished(w) /\ Seen(w, "bind")
        /\ ParamsOf(w) = PyDict(<<<<"p", PyStr(TxtLetters)>>>>)
        /\ RaisedFor(w, "p") /\ resp[w].kind = "error"

IsOutItem(item) == item[2].t = "dict" /\ item[2].dir = "OUT"

\* the OUT items of a parameter mapping, in order
OutItems(params) == SelectSeq(params.items, IsOutItem)

\* C7: the output of a procedure call maps each OUT parameter name, in the order
\* bound, to a table {columns: name -> semantic type, rows} when the OUT type is a
\* cursor and to the scalar value otherwise, on both endpoints.
C7_OutputIsTableOrScalar ==
    \A w \in Workers :
        Finished(w) /\ resp[w].kind = "data" /\ resp[w].data.t = "proc"
          /\ resp[w].data.has_output =>
            LET output == resp[w].data.output
                bound == OutItems(ParamsOf(w))
            IN  /\ Keys(output) = Keys(bound)
                /\ \A i \in DOMAIN output :
                     IF Get(DriverAttrs, bound[i][2].type) = "DB_TYPE_CURSOR"
                     THEN /\ output[i][2].t = "table"
                          /\ \A j \in DOMAIN output[i][2].columns :
                               output[i][2].columns[j][2]
                                   \in {PyAtom(tag) : tag \in SemanticTypes}
                     ELSE output[i][2] = ScalarOut

\* the rank of each step in an order of steps
RankIn(order, step) == CHOOSE i \in DOMAIN order : order[i] = step
Ranked(order) == {order[i] : i \in DOMAIN order}

\* the steps of worker w that the order names occur in that order
InOrder(w, order) ==
    \A i, j \in DOMAIN steps[w] :
        i < j /\ steps[w][i] \in Ranked(order) /\ steps[w][j] \in Ranked(order)
            => RankIn(order, steps[w][i]) < RankIn(order, steps[w][j])

\* what the Binder makes of the parameters of worker w's request
BinderOutput(w) == PyList(prepare_proc_params(ParamsOf(w)).proc_params)

\* C9 as stated: a request that reaches the driver classifies, binds, leases, executes,
\* shapes, releases and responds in this order on both paths, and the driver is given
\* the Binder's output.
C9_BindBeforeLease ==
    \A w \in Workers :
        Finished(w) /\ ReachedDriver(w) =>
            /\ InOrder(w, <<"classify", "bind", "lease", "execute", "shape", "release",
                            "respond">>)
            /\ Seen(w, "bind")
            /\ out[w].handed.params.t = BinderOutput(w).t
            /\ out[w].handed.params = BinderOutput(w)

\* C9 amended: a request that reaches the driver leases, classifies, binds (on the
\* call path only), executes, shapes, releases and responds in this order; on the call
\* path the driver is given the Binder's output, on the direct-query path the raw
\* request mapping.
C9_LeaseBeforeBind ==
    \A w \in Workers :
        Finished(w) /\ ReachedDriver(w) =>
            /\ InOrder(w, <<"lease", "classify", "bind", "execute", "shape", "release",
                            "respond">>)
            /\ \A st \in {"lease", "classify", "execute", "release", "respond"} :
                 Times(w, st) = 1
            /\ Seen(w, "bind") <=> HasCallPrefix(SqlOf(w))
            /\ out[w].handed.params =
                 IF HasCallPrefix(SqlOf(w)) THEN BinderOutput(w) ELSE ParamsOf(w)

\* a procedure call was given the date of '2024-01-15' in place of the text
C9_Witness ==
    \E w \in Workers :
        /\ Finished(w) /\ ReachedDriver(w) /\ Seen(w, "bind") /\ Seen(w, "release")
        /\ ParamsOf(w) = PyDict(<<<<"a", PyStr(TxtHello)>>, <<"b", PyStr(TxtDate)>>>>)
        /\ out[w].handed.params.items[2] = DateTime(2024, 1, 15, 0, 0, 0)

\* C10: a table made of a result set has one columns entry per driver column, in the
\* driver's order, every row has one value per driver column, and the rows are the
\* fetched rows in fetch order.
C10_OneEntryPerColumn ==
    \A w \in Workers :
        Finished(w) /\ (resp[w].kind = "data" /\ resp[w].data.t = "table" => drv[w].hasrs) =>
            \A tb \in TablesOf(w) :
                /\ Keys(tb.columns) =
                     [j \in DOMAIN drv[w].rs.description |-> drv[w].rs.description[j][1]]
                /\ tb.rows = drv[w].rs.rows
                /\ \A i \in DOMAIN tb.rows : Len(tb.rows[i]) = Len(tb.columns)

\* the request of worker w failed
Failed(w) ==
    ~req[w].body.isdict \/ req[w].body.sql = <<>> \/ out[w].exc # NoExc

====
